---------------------------- MODULE Spec2Model ----------------------------
(***************************************************************************)
(* Model of ezdxf's generic table layer (src/ezdxf/table.py): class Table  *)
(* and its duplicate-permitting subclass ViewportTable, together with the  *)
(* three collaborators a table reaches through its drawing: the handle     *)
(* allocator (drawing.handles), the entity database (drawing.entitydb) and *)
(* the entity factory (drawing.dxffactory).                                *)
(*                                                                         *)
(* A table entry's tags are a record [handle, name]; a wrapped entry is a  *)
(* record [handle, name, tags].  A header is a record of two tag           *)
(* sequences, the tags outside any subclass and the tags of the subclass   *)
(* 'AcDbSymbolTable'; a tag is a record [code, value].                     *)
(***************************************************************************)
EXTENDS Integers, Sequences, FiniteSets, TLC

VARIABLES
    cls,            \* "Table" or "ViewportTable": the class of the table object
    dxfversion,     \* self._drawing.dxfversion, 'AC1009' as 1009, 'AC1015' as 1015
    table_header,   \* self._table_header
    table_entries,  \* self._table_entries: list of handles
    entitydb,       \* self._drawing.entitydb: handle -> tags
    nexthandle,     \* self._drawing.handles: the value the next .next yields
    groups,         \* TagGroups(tags): the tag groups the table was built from
    constructed,    \* "ok", or the exception Table.__init__ ended with
    other_entries,  \* _table_entries of a second table of the same drawing
    split,          \* the call of split_mtext_string: s, size, pos, chunks
    last            \* history: the call that ran last, its pre-state and outcome

vars == <<cls, dxfversion, table_header, table_entries, entitydb, nexthandle,
          groups, constructed, other_entries, split, last>>

-----------------------------------------------------------------------------
(* Bounds and input sets *)

\* number of handles the allocator issues before the model stops creating
MaxCreated == 3

\* names used by loaded and created entries
Names == {"0", "VIEW"}

\* numbers of entry groups in the loaded tag stream
LoadedCounts == {0, 1, 2}

\* handles of entities of the drawing that belong to no table
OtherHandles == {0}

\* longest string handed to split_mtext_string
MaxLen == 4

\* largest chunk size handed to split_mtext_string
MaxSize == 3

\* 'AC1009': the last DXF version without subclass markers
AC1009 == 1009

DxfVersions == {1009, 1015}

\* the count a loaded header carries, stale with respect to the entries
StaleCounts == {9}

Classes == {"Table", "ViewportTable"}

\* attribs handed to create/new_entry: the name, and whether the entity
\* factory accepts them
Attribs ==
    {[name |-> n, valid |-> TRUE] : n \in Names}
        \cup {[name |-> "0", valid |-> FALSE]}

-----------------------------------------------------------------------------
(* Tags, headers, entries *)

DXFTag(code, value) == [code |-> code, value |-> value]

EntryTags(handle, name) == [handle |-> handle, name |-> name]

\* dxffactory.wrap_entity(tags): a typed view with .name and .handle
wrap_entity(tags) == [handle |-> tags.handle, name |-> tags.name, tags |-> tags]

\* dxffactory.new_entity(dxfname, handle, attribs): a new entry whose tags
\* carry the handle and the name of attribs
new_entity(handle, attribs) == wrap_entity(EntryTags(handle, attribs.name))

HasCode(tags, code) == \E i \in 1..Len(tags) : tags[i].code = code

FirstIndex(tags, code) ==
    CHOOSE i \in 1..Len(tags) :
        /\ tags[i].code = code
        /\ \A j \in 1..(i - 1) : tags[j].code # code

\* Tags.update(code, value): replace the value of the first tag with that
\* code in place; the caller checks HasCode (ValueError otherwise)
TagsUpdate(tags, code, value) ==
    [tags EXCEPT ![FirstIndex(tags, code)] = DXFTag(code, value)]

Min(S) == CHOOSE x \in S : \A y \in S : x <= y

Max(S) == CHOOSE x \in S : \A y \in S : y <= x

SeqRange(s) == {s[i] : i \in 1..Len(s)}

\* list.remove(x): drop the first occurrence of x
ListRemove(s, x) ==
    LET i == Min({k \in 1..Len(s) : s[k] = x})
    IN  SubSeq(s, 1, i - 1) \o SubSeq(s, i + 1, Len(s))

\* del d[k]
DictDel(d, k) == [h \in (DOMAIN d) \ {k} |-> d[h]]

\* d[k] = v
DictSet(d, k, v) == [h \in (DOMAIN d) \cup {k} |-> IF h = k THEN v ELSE d[h]]

-----------------------------------------------------------------------------
(* The table's state as a value: what the methods read and change *)

TableState(entries, db, header, next) ==
    [entries |-> entries, db |-> db, header |-> header, next |-> next]

Current ==
    TableState(table_entries, entitydb, table_header, nexthandle)

\* a call's outcome: the state it leaves, the exception it raised ("none"
\* when it returned) and the value it returned
Outcome(st, exc, ret) == [st |-> st, exc |-> exc, ret |-> ret]

None == "None"

\* Tags versus wrapped entity: isinstance(entry, Tags)
IsTags(entry) == "tags" \notin DOMAIN entry

\* Tags.gethandle(handles): the handle the tags carry
gethandle(tags) == tags.handle

\* _add_entry that appends the handle and forgets the entity database
add_entry_unregistered(st, entry) ==
    LET handle == IF IsTags(entry) THEN gethandle(entry) ELSE entry.handle
    IN  [st EXCEPT !.entries = Append(st.entries, handle)]

\* _add_entry that puts the new handle in front of the list
add_entry_front(st, entry) ==
    LET handle == IF IsTags(entry) THEN gethandle(entry) ELSE entry.handle
        tags   == IF IsTags(entry) THEN entry ELSE entry.tags
    IN  [st EXCEPT !.db = DictSet(st.db, handle, tags),
                   !.entries = <<handle>> \o st.entries]

\* Table._add_entry
add_entry(st, entry) ==
    LET handle == IF IsTags(entry) THEN gethandle(entry) ELSE entry.handle
        tags   == IF IsTags(entry) THEN entry ELSE entry.tags
    IN  [st EXCEPT !.db = DictSet(st.db, handle, tags),
                   !.entries = Append(st.entries, handle)]

\* Table.get_table_entry_wrapper
get_table_entry_wrapper(st, handle) == wrap_entity(st.db[handle])

\* Table.__iter__: the wrapped entries in the order of _table_entries
iter(st) ==
    [i \in 1..Len(st.entries) |-> get_table_entry_wrapper(st, st.entries[i])]

\* Table.__len__
len(st) == Len(st.entries)

\* get_entry that keeps scanning and returns the last entry with that name
get_entry_last(st, name) ==
    LET it   == [i \in 1..Len(st.entries) |-> wrap_entity(st.db[st.entries[i]])]
        hits == {i \in 1..Len(it) : it[i].name = name}
    IN  IF hits = {}
        THEN Outcome(st, "ValueError", None)
        ELSE Outcome(st, "none", it[Max(hits)])

\* get_entry that takes the entry it found out of the member list
get_entry_taking(st, name) ==
    LET it   == iter(st)
        hits == {i \in 1..Len(it) : it[i].name = name}
    IN  IF hits = {}
        THEN Outcome(st, "ValueError", None)
        ELSE Outcome([st EXCEPT !.entries = ListRemove(@, it[Min(hits)].handle)],
                     "none", it[Min(hits)])

\* Table.get_entry: the first entry of iter(self) with that name
get_entry(st, name) ==
    LET it   == iter(st)
        hits == {i \in 1..Len(it) : it[i].name = name}
    IN  IF hits = {}
        THEN Outcome(st, "ValueError", None)
        ELSE Outcome(st, "none", it[Min(hits)])

\* Table.get
get(st, name) == get_entry(st, name)

\* entry_exists that answers True on both paths of its try statement
entry_exists_always(st, name) == get_entry(st, name).exc \in {"none", "ValueError"}

\* Table.entry_exists: get_entry succeeded; ValueError is swallowed
entry_exists(st, name) == get_entry(st, name).exc = "none"

\* Table.__contains__
contains(st, name) == entry_exists(st, name)

\* new_entry on an allocator that hands out the lowest handle without a
\* record, so the handle of a removed entry comes back
new_entry_recycling(st, attribs) ==
    LET handle == Min({h \in 1..st.next : h \notin DOMAIN st.db})
        taken  == [st EXCEPT !.next = IF handle = st.next THEN handle + 1 ELSE @]
        entry  == new_entity(handle, attribs)
    IN  IF ~attribs.valid
        THEN Outcome(taken, "ValidationError", None)
        ELSE Outcome(add_entry(taken, entry), "none", entry)

\* new_entry that refuses a name the table already has
new_entry_checked(st, attribs) ==
    LET handle == st.next
        taken  == [st EXCEPT !.next = handle + 1]
        entry  == new_entity(handle, attribs)
    IN  IF contains(st, attribs.name)
        THEN Outcome(st, "ValueError", None)
        ELSE IF ~attribs.valid
        THEN Outcome(taken, "ValidationError", None)
        ELSE Outcome(add_entry(taken, entry), "none", entry)

\* new_entry that registers the entry before the factory has accepted it
new_entry_add_first(st, attribs) ==
    LET handle == st.next
        taken  == [st EXCEPT !.next = handle + 1]
        entry  == wrap_entity(EntryTags(handle, attribs.name))
    IN  IF ~attribs.valid
        THEN Outcome(add_entry(taken, entry), "ValidationError", None)
        ELSE Outcome(add_entry(taken, entry), "none", entry)

\* Table.new_entry: take a handle, let the factory build the entry, add it
new_entry(st, attribs) ==
    LET handle == st.next
        taken  == [st EXCEPT !.next = handle + 1]
        entry  == new_entity(handle, attribs)
    IN  IF ~attribs.valid
        THEN Outcome(taken, "ValidationError", None)
        ELSE Outcome(add_entry(taken, entry), "none", entry)

\* create without the duplicate-name check
Table_create_unchecked(st, attribs) == new_entry(st, attribs)

\* create that adds the entry first and looks for the duplicate afterwards
Table_create_check_after(st, attribs) ==
    IF contains(st, attribs.name)
    THEN Outcome(new_entry(st, attribs).st, "ValueError", None)
    ELSE new_entry(st, attribs)

\* Table.create
Table_create(st, attribs) ==
    IF contains(st, attribs.name)
    THEN Outcome(st, "ValueError", None)
    ELSE new_entry(st, attribs)

\* ViewportTable without its override: the create it inherits from Table
ViewportTable_create_inherited(st, attribs) == Table_create(st, attribs)

\* ViewportTable.create
ViewportTable_create(st, attribs) == new_entry(st, attribs)

\* method dispatch on the class of the table object
create(c, st, attribs) ==
    IF c = "ViewportTable"
    THEN ViewportTable_create(st, attribs)
    ELSE Table_create(st, attribs)

\* remove_entry that drops every entry with that name
remove_entry_all(st, name) ==
    LET found == get_entry(st, name)
        gone  == {h \in SeqRange(st.entries) : st.db[h].name = name}
    IN  IF found.exc # "none"
        THEN Outcome(st, found.exc, None)
        ELSE Outcome([st EXCEPT
                        !.entries = SelectSeq(st.entries, LAMBDA h : h \notin gone),
                        !.db = [h \in (DOMAIN st.db) \ gone |-> st.db[h]]],
                     "none", None)

\* remove_entry that returns quietly when the name is unknown
remove_entry_lenient(st, name) ==
    LET found == get_entry(st, name)
    IN  IF found.exc # "none"
        THEN Outcome(st, "none", None)
        ELSE LET handle == found.ret.handle
             IN  Outcome([st EXCEPT !.entries = ListRemove(st.entries, handle),
                                    !.db = DictDel(st.db, handle)],
                         "none", None)

\* remove_entry that takes the last entry with that name
remove_entry_last(st, name) ==
    LET found == get_entry_last(st, name)
    IN  IF found.exc # "none"
        THEN Outcome(st, found.exc, None)
        ELSE LET handle == found.ret.handle
             IN  Outcome([st EXCEPT !.entries = ListRemove(st.entries, handle),
                                    !.db = DictDel(st.db, handle)],
                         "none", None)

\* remove_entry that deletes every record of that name from the entity
\* database, whichever table it belongs to
remove_entry_db_wide(st, name) ==
    LET found == get_entry(st, name)
    IN  IF found.exc # "none"
        THEN Outcome(st, found.exc, None)
        ELSE LET handle == found.ret.handle
                 gone   == {h \in DOMAIN st.db : st.db[h].name = name}
             IN  Outcome([st EXCEPT !.entries = ListRemove(st.entries, handle),
                                    !.db = [h \in (DOMAIN st.db) \ gone |-> st.db[h]]],
                         "none", None)

\* Table.remove_entry
remove_entry(st, name) ==
    LET found == get_entry(st, name)
    IN  IF found.exc # "none"
        THEN Outcome(st, found.exc, None)
        ELSE LET handle == found.ret.handle
             IN  Outcome([st EXCEPT !.entries = ListRemove(st.entries, handle),
                                    !.db = DictDel(st.db, handle)],
                         "none", None)

\* Table.remove
remove(st, name) == remove_entry(st, name)

-----------------------------------------------------------------------------
(* Serialisation *)

\* what the sink receives: a marker line, the header's tags, an entry's tags
Marker(text) == [kind |-> "marker", value |-> text]
HeaderItem(header) == [kind |-> "header", value |-> header]
EntryItem(tags) == [kind |-> "entry", value |-> tags]

\* _iter_table_entries_as_tags that walks the list from its end
iter_table_entries_as_tags_reversed(st) ==
    [i \in 1..Len(st.entries) |-> st.db[st.entries[Len(st.entries) + 1 - i]]]

\* Table._iter_table_entries_as_tags
iter_table_entries_as_tags(st) ==
    [i \in 1..Len(st.entries) |-> st.db[st.entries[i]]]

\* the version test of _update_meta_data with >= in place of >
CountScope_inclusive(version) ==
    IF version >= AC1009 THEN "AcDbSymbolTable" ELSE "noclass"

\* where Table._update_meta_data patches the count: the subclass
\* 'AcDbSymbolTable' for dxfversion > 'AC1009', else the header's own tags
CountScope(version) ==
    IF version > AC1009 THEN "AcDbSymbolTable" ELSE "noclass"

\* _update_meta_data that trusts the count the header already carries
update_meta_data_cached(st, version) ==
    IF ~HasCode(st.header[CountScope(version)], 70)
    THEN Outcome(st, "ValueError", None)
    ELSE Outcome(st, "none", None)

\* Table._update_meta_data
update_meta_data(st, version) ==
    LET count == len(st)
        scope == CountScope(version)
    IN  IF ~HasCode(st.header[scope], 70)
        THEN Outcome(st, "ValueError", None)
        ELSE Outcome([st EXCEPT !.header[scope] = TagsUpdate(@, 70, count)],
                     "none", None)

\* write whose prologue writes the header before _update_meta_data runs
write_header_before_update(st, version) ==
    LET meta     == update_meta_data(st, version)
        tagsiter == iter_table_entries_as_tags(meta.st)
        content  == [i \in 1..Len(tagsiter) |-> EntryItem(tagsiter[i])]
    IN  IF meta.exc # "none"
        THEN Outcome(meta.st, meta.exc, <<Marker("TABLE")>>)
        ELSE Outcome(meta.st, "none",
                     <<Marker("TABLE"), HeaderItem(st.header)>>
                         \o content \o <<Marker("ENDTAB")>>)

\* Table.write: prologue(), content(), epilogue(); ret is what the stream
\* received
write(st, version) ==
    LET meta     == update_meta_data(st, version)
        tagsiter == iter_table_entries_as_tags(meta.st)
        content  == [i \in 1..Len(tagsiter) |-> EntryItem(tagsiter[i])]
    IN  IF meta.exc # "none"
        THEN Outcome(meta.st, meta.exc, <<Marker("TABLE")>>)
        ELSE Outcome(meta.st, "none",
                     <<Marker("TABLE"), HeaderItem(meta.st.header)>>
                         \o content \o <<Marker("ENDTAB")>>)

-----------------------------------------------------------------------------
(* Construction from a tag stream *)

\* the first handle the allocator issues: above every handle of the drawing
HandSeed == Max(LoadedCounts \cup OtherHandles) + 1

\* a tag group: the value of its marker tag and the tags after the marker
Group(name, tags) == [name |-> name, tags |-> tags]

EmptyHeader == [noclass |-> <<>>, AcDbSymbolTable |-> <<>>]

CountTags == {<<>>} \cup {<<DXFTag(70, c)>> : c \in StaleCounts}

\* the headers a file of that version carries: the count field is where
\* that version keeps it, and a file up to 'AC1009' has no subclasses
Headers(version) ==
    {h \in [noclass : CountTags, AcDbSymbolTable : CountTags] :
        /\ HasCode(h[CountScope(version)], 70)
        /\ version <= AC1009 => h.AcDbSymbolTable = <<>>}

\* n entry groups; their handles are distinct and descend in file order, and
\* the first entry is the one named "0" (every other choice is a renaming)
EntryGroups(n) ==
    {[i \in 1..n |-> Group("LAYER", EntryTags(n + 1 - i, nm[i]))] :
        nm \in {f \in [1..n -> Names] : n >= 1 => f[1] = "0"}}

AllEntryGroups == UNION {EntryGroups(n) : n \in LoadedCounts}

\* well-formed streams: TABLE, e1..en, ENDTAB
ValidStreams(version) ==
    {<<Group("TABLE", h)>> \o es \o <<Group("ENDTAB", <<>>)>> :
        h \in Headers(version), es \in AllEntryGroups}

\* streams that lack the closing or the opening group
BrokenStreams(version) ==
    {<<Group("TABLE", h)>> \o es :
        h \in Headers(version), es \in EntryGroups(1)}
    \cup {es \o <<Group("ENDTAB", <<>>)>> : es \in EntryGroups(1)}

\* the entities the drawing holds before the table is loaded
OtherEntities == [h \in OtherHandles |-> EntryTags(h, "*OTHER")]

RECURSIVE add_entries(_, _, _)
\* the loop of Table._build_table_entries over groups[1:-1]
add_entries(st, gs, i) ==
    IF i > Len(gs) - 1
    THEN st
    ELSE add_entries(add_entry(st, gs[i].tags), gs, i + 1)

\* _build_table_entries without its two assert statements
build_table_entries_unasserted(st, gs) ==
    Outcome(add_entries([st EXCEPT !.header = gs[1].tags], gs, 2), "none", None)

\* _build_table_entries whose loop starts one group late (groups[2:-1])
build_table_entries_skip_first(st, gs) ==
    IF gs[1].name # "TABLE" \/ gs[Len(gs)].name # "ENDTAB"
    THEN Outcome(st, "AssertionError", None)
    ELSE Outcome(add_entries([st EXCEPT !.header = gs[1].tags], gs, 3),
                 "none", None)

\* Table.__init__ and Table._build_table_entries
build_table_entries(st, gs) ==
    IF gs[1].name # "TABLE" \/ gs[Len(gs)].name # "ENDTAB"
    THEN Outcome(st, "AssertionError", None)
    ELSE Outcome(add_entries([st EXCEPT !.header = gs[1].tags], gs, 2),
                 "none", None)

NoCall ==
    [op |-> "init", name |-> None, exc |-> "none", count |-> 0, had |-> FALSE]

\* Table(tags, drawing) on the tag groups of the stream, in a drawing whose
\* entity database is db and whose second table has the members others
Construct(db, others) ==
    LET st0 == TableState(<<>>, db, EmptyHeader, HandSeed)
        out == build_table_entries(st0, groups)
    IN  /\ constructed = (IF out.exc = "none" THEN "ok" ELSE out.exc)
        /\ table_entries = out.st.entries
        /\ entitydb = out.st.db
        /\ table_header = out.st.header
        /\ nexthandle = out.st.next
        /\ other_entries = others
        /\ last = [op |-> "init", on |-> "self", name |-> None,
                   valid |-> TRUE, exc |-> out.exc, ret |-> None,
                   pre |-> st0, other |-> others, follows |-> NoCall]

\* no call of split_mtext_string is under way
NoSplit == [s |-> <<>>, size |-> 0, pos |-> 0, chunks |-> <<>>, done |-> TRUE]

Init ==
    /\ cls \in Classes
    /\ dxfversion \in DxfVersions
    /\ groups \in ValidStreams(dxfversion) \cup BrokenStreams(dxfversion)
    /\ Construct(OtherEntities, <<>>)
    /\ split = NoSplit

-----------------------------------------------------------------------------
(* The calls a client makes on a constructed table *)

\* what a call leaves in the record of the call after it: a create that
\* returned, with its name, the count before it and whether the table had
\* the name before it; nothing for other calls
Summary(call) ==
    IF call.op = "create" /\ call.on = "self" /\ call.exc = "none"
    THEN [op |-> call.op, name |-> call.name, exc |-> call.exc,
          count |-> len(call.pre), had |-> contains(call.pre, call.name)]
    ELSE NoCall

\* the state a call leaves and the record of the call
Apply(op, name, valid, out) ==
    /\ table_entries' = out.st.entries
    /\ entitydb' = out.st.db
    /\ table_header' = out.st.header
    /\ nexthandle' = out.st.next
    /\ last' = [op |-> op, on |-> "self", name |-> name, valid |-> valid,
                exc |-> out.exc, ret |-> out.ret, pre |-> Current,
                other |-> other_entries, follows |-> Summary(last)]
    /\ UNCHANGED <<cls, dxfversion, groups, constructed, other_entries, split>>

\* the allocator has handles left within the model's bound
CanAllocate == nexthandle < HandSeed + MaxCreated

Create(attribs) ==
    /\ constructed = "ok"
    /\ CanAllocate
    /\ Apply("create", attribs.name, attribs.valid,
             create(cls, Current, attribs))

NewEntry(attribs) ==
    /\ constructed = "ok"
    /\ CanAllocate
    /\ Apply("new_entry", attribs.name, attribs.valid,
             new_entry(Current, attribs))

Remove(name) ==
    /\ constructed = "ok"
    /\ Apply("remove", name, TRUE, remove(Current, name))

Get(name) ==
    /\ constructed = "ok"
    /\ Apply("get", name, TRUE, get(Current, name))

Contains(name) ==
    /\ constructed = "ok"
    /\ Apply("contains", name, TRUE, Outcome(Current, "none", contains(Current, name)))

Count ==
    /\ constructed = "ok"
    /\ Apply("len", None, TRUE, Outcome(Current, "none", len(Current)))

Iterate ==
    /\ constructed = "ok"
    /\ Apply("iter", None, TRUE, Outcome(Current, "none", iter(Current)))

Write ==
    /\ constructed = "ok"
    /\ Apply("write", None, TRUE, write(Current, dxfversion))

Next ==
    \/ \E a \in Attribs : Create(a)
    \/ \E a \in Attribs : NewEntry(a)
    \/ \E n \in Names : Remove(n)
    \/ \E n \in Names : Get(n)
    \/ \E n \in Names : Contains(n)
    \/ Count
    \/ Iterate
    \/ Write

Spec == Init /\ [][Next]_vars

-----------------------------------------------------------------------------
(* A standard Table that is only ever changed through create and remove *)

\* the name of the i-th member
NameAt(st, i) == st.db[st.entries[i]].name

\* the positions of the members with that name
Positions(st, name) == {i \in 1..Len(st.entries) : NameAt(st, i) = name}

UniqueNames(st) == \A n \in Names : Cardinality(Positions(st, n)) <= 1

InitCreateRemove ==
    /\ Init
    /\ cls = "Table"
    /\ constructed = "ok"
    /\ UniqueNames(Current)

NextCreateRemove ==
    \/ \E a \in Attribs : Create(a)
    \/ \E n \in Names : Remove(n)

SpecCreateRemove == InitCreateRemove /\ [][NextCreateRemove]_vars

-----------------------------------------------------------------------------
(* Tables whose header carries a count in both places *)

\* headers with a count tag where the version keeps it and, maybe, a count
\* tag in the other place as well
WideHeaders(version) ==
    {h \in [noclass : CountTags, AcDbSymbolTable : CountTags] :
        /\ version <= AC1009 => HasCode(h.noclass, 70)
        /\ version > AC1009 => HasCode(h.AcDbSymbolTable, 70)}

WideStreams(version) ==
    {<<Group("TABLE", h)>> \o es \o <<Group("ENDTAB", <<>>)>> :
        h \in WideHeaders(version), es \in EntryGroups(1)}

InitHeaders ==
    /\ cls \in Classes
    /\ dxfversion \in DxfVersions
    /\ groups \in WideStreams(dxfversion)
    /\ Construct(OtherEntities, <<>>)
    /\ split = NoSplit

SpecHeaders == InitHeaders /\ [][Next]_vars

-----------------------------------------------------------------------------
(* Two tables of one drawing: one entity database, one handle allocator *)

\* the stream of the second table, a standard Table: its one entry is the
\* entity the drawing holds outside the first table, and it is named "0"
SecondGroups(h) ==
    <<Group("TABLE", EmptyHeader), Group("STYLE", EntryTags(h, "0")),
      Group("ENDTAB", <<>>)>>

\* the second table as a value; it shares entitydb and nexthandle
Other == TableState(other_entries, entitydb, EmptyHeader, nexthandle)

InitTwoTables ==
    /\ cls \in Classes
    /\ dxfversion \in DxfVersions
    /\ groups \in ValidStreams(dxfversion)
    /\ \E h \in OtherHandles :
        LET empty  == TableState(<<>>, OtherEntities, EmptyHeader, HandSeed)
            second == build_table_entries(empty, SecondGroups(h))
        IN  Construct(second.st.db, second.st.entries)
    /\ split = NoSplit

\* the state a call on the second table leaves and the record of the call
ApplyOther(op, name, valid, out) ==
    /\ other_entries' = out.st.entries
    /\ entitydb' = out.st.db
    /\ nexthandle' = out.st.next
    /\ last' = [op |-> op, on |-> "other", name |-> name, valid |-> valid,
                exc |-> out.exc, ret |-> out.ret, pre |-> Current,
                other |-> other_entries, follows |-> Summary(last)]
    /\ UNCHANGED <<cls, dxfversion, groups, constructed, table_entries,
                   table_header, split>>

OtherCreate(attribs) ==
    /\ constructed = "ok"
    /\ CanAllocate
    /\ ApplyOther("create", attribs.name, attribs.valid,
                  create("Table", Other, attribs))

OtherNewEntry(attribs) ==
    /\ constructed = "ok"
    /\ CanAllocate
    /\ ApplyOther("new_entry", attribs.name, attribs.valid,
                  new_entry(Other, attribs))

OtherRemove(name) ==
    /\ constructed = "ok"
    /\ ApplyOther("remove", name, TRUE, remove(Other, name))

NextTwoTables ==
    \/ \E a \in Attribs : Create(a)
    \/ \E a \in Attribs : NewEntry(a)
    \/ \E n \in Names : Remove(n)
    \/ \E a \in Attribs : OtherCreate(a)
    \/ \E a \in Attribs : OtherNewEntry(a)
    \/ \E n \in Names : OtherRemove(n)

SpecTwoTables == InitTwoTables /\ [][NextTwoTables]_vars

-----------------------------------------------------------------------------
(* tools/text.py: split_mtext_string.  A string is a sequence of characters *)

Chars == {"a", "^"}

Strings == UNION {[1..n -> Chars] : n \in 0..MaxLen}

\* chunk sizes from 0 on; negative sizes are not enumerated
Sizes == 0..MaxSize

\* s[from:to] for 0 <= from <= to
Slice(s, from, to) ==
    [i \in 1..(Min({to, Len(s)}) - Min({from, Len(s)})) |-> s[from + i]]

\* one pass through the `while True` of split_mtext_string
split_pass(f) ==
    LET chunk == Slice(f.s, f.pos, f.pos + f.size)
        caret == chunk[Len(chunk)] = "^"
    IN  IF Len(chunk) # 0
        THEN IF Len(chunk) < f.size
             THEN [f EXCEPT !.chunks = Append(@, chunk), !.done = TRUE]
             ELSE [f EXCEPT !.pos = IF caret THEN f.pos + f.size - 1
                                             ELSE f.pos + f.size,
                            !.chunks = Append(@, IF caret
                                                 THEN Slice(chunk, 0, Len(chunk) - 1)
                                                 ELSE chunk)]
        ELSE [f EXCEPT !.done = TRUE]

\* the list of chunks is recorded up to this length; a call that returns
\* makes at most Len(s) + 1 chunks
MaxChunks == MaxLen + 2

InitSplit ==
    /\ cls = "Table"
    /\ dxfversion = AC1009
    /\ groups = <<Group("TABLE", EmptyHeader), Group("ENDTAB", <<>>)>>
    /\ Construct(OtherEntities, <<>>)
    /\ \E s \in Strings, size \in Sizes :
        split = [s |-> s, size |-> size, pos |-> 0, chunks |-> <<>>,
                 done |-> FALSE]

Pass ==
    /\ ~split.done
    /\ Len(split.chunks) < MaxChunks
    /\ split' = split_pass(split)
    /\ UNCHANGED <<cls, dxfversion, table_header, table_entries, entitydb,
                   nexthandle, groups, constructed, other_entries, last>>

NextSplit == Pass

SpecSplit == InitSplit /\ [][NextSplit]_vars

-----------------------------------------------------------------------------
(* Properties *)

Built == constructed = "ok"

\* C1: a standard Table that starts without duplicate names and is changed
\* only by create and remove calls, failing ones included, never holds two
\* members with the same name.
C1_UniqueUnderCreateRemove == Built => UniqueNames(Current)

\* C1 witness: a create was refused for its name on a table of two members
C1_Witness ==
    /\ Built /\ cls = "Table"
    /\ last.op = "create" /\ last.exc = "ValueError"
    /\ len(Current) >= 2

\* C2: on a standard Table a create with a name some member has raises
\* ValueError and leaves the member list and the entity database as they
\* were.
C2_DuplicateCreateFails ==
    (Built /\ cls = "Table" /\ last.op = "create"
        /\ Positions(last.pre, last.name) # {})
    => /\ last.exc = "ValueError"
       /\ table_entries = last.pre.entries
       /\ entitydb = last.pre.db

\* C2 witness: a create on a standard Table that met its name
C2_Witness ==
    /\ Built /\ cls = "Table" /\ last.op = "create"
    /\ Positions(last.pre, last.name) # {}
    /\ last.exc = "ValueError"

\* C3: on a ViewportTable a create (with attribs the factory accepts) whose
\* name some member has returns, the count grows by exactly one, the new
\* member stands at the end under a handle no record and no member had, and
\* the members and records from before are where they were.
C3_ViewportDuplicateCreate ==
    (Built /\ cls = "ViewportTable" /\ last.op = "create" /\ last.valid
        /\ Positions(last.pre, last.name) # {})
    => /\ last.exc = "none"
       /\ len(Current) = len(last.pre) + 1
       /\ table_entries = Append(last.pre.entries, last.ret.handle)
       /\ last.ret.handle \notin DOMAIN last.pre.db
       /\ last.ret.handle \notin SeqRange(last.pre.entries)
       /\ entitydb[last.ret.handle].name = last.name
       /\ \A h \in DOMAIN last.pre.db : entitydb[h] = last.pre.db[h]

\* C3 witness: a ViewportTable took a second member of a name
C3_Witness ==
    /\ Built /\ cls = "ViewportTable" /\ last.op = "create"
    /\ Positions(last.pre, last.name) # {}
    /\ Cardinality(Positions(Current, last.name)) >= 2

\* a remove(name) that ran right after a create(name) that returned
RemoveAfterCreate ==
    /\ Built
    /\ last.op = "remove"
    /\ last.follows.op = "create"
    /\ last.follows.name = last.name

\* C4 as stated: for either class, create(name) followed at once by
\* remove(name) brings count() back to what it was before the create and
\* leaves contains(name) false.
C4_AsStated ==
    RemoveAfterCreate
    => /\ len(Current) = last.follows.count
       /\ ~contains(Current, last.name)

\* C4 amended: for either class, create(name) followed at once by
\* remove(name) lets the remove return and brings count() back to what it
\* was before the create; contains(name) is false afterwards exactly when no
\* member had the name before the create, which is always so on a standard
\* Table.  On a ViewportTable that had the name, remove takes the older
\* member and the created one remains.
C4_CreateThenRemove ==
    RemoveAfterCreate
    => /\ last.exc = "none"
       /\ len(Current) = last.follows.count
       /\ contains(Current, last.name) <=> last.follows.had
       /\ cls = "Table" => ~last.follows.had
       /\ last.follows.had =>
            table_entries[Len(table_entries)] = last.pre.entries[Len(last.pre.entries)]

\* C4 witness: create then remove of a name the ViewportTable already had
C4_Witness ==
    /\ RemoveAfterCreate
    /\ last.follows.had
    /\ last.exc = "none"

\* C5: every handle in the member list has a record in the entity database.
C5_MembersHaveRecords ==
    Built => \A i \in 1..Len(table_entries) : table_entries[i] \in DOMAIN entitydb

\* C5 witness: after a remove, a loaded and a created member remain
C5_Witness ==
    /\ Built /\ last.op = "remove" /\ last.exc = "none"
    /\ \E i \in 1..Len(table_entries) : table_entries[i] < HandSeed
    /\ \E i \in 1..Len(table_entries) : table_entries[i] >= HandSeed

\* the entry count a header carries where files of that version keep it
CountField(header, version) ==
    LET tags == header[CountScope(version)]
    IN  tags[FirstIndex(tags, 70)].value

\* the headers a written stream holds
WrittenHeaders(stream) ==
    {stream[i].value : i \in {k \in 1..Len(stream) : stream[k].kind = "header"}}

\* C6: every write puts out one header, and its entry count is the number
\* of members at that write, whatever count the header carried before.
C6_WrittenCountIsLen ==
    (Built /\ last.op = "write")
    => /\ last.exc = "none"
       /\ Cardinality(WrittenHeaders(last.ret)) = 1
       /\ \A h \in WrittenHeaders(last.ret) :
            /\ CountField(h, dxfversion) = len(last.pre)
            /\ CountField(h, dxfversion) = len(Current)

\* C6 witness: a table loaded without entries got three entries and was
\* written while its header still carried another count; the stream says 3
C6_Witness ==
    /\ Built /\ last.op = "write" /\ last.exc = "none"
    /\ Len(groups) = 2
    /\ len(last.pre) = 3
    /\ CountField(last.pre.header, dxfversion) # 3
    /\ \A h \in WrittenHeaders(last.ret) : CountField(h, dxfversion) = 3

\* C7: write puts out the TABLE marker, then the header, then the stored
\* tags of every member once and in the order of the member list, then the
\* ENDTAB marker, and nothing else.
C7_WriteLayout ==
    (Built /\ last.op = "write")
    => LET out == last.ret
           n   == Len(table_entries)
       IN  /\ Len(out) = n + 3
           /\ out[1].kind = "marker" /\ out[1].value = "TABLE"
           /\ out[2].kind = "header" /\ out[2].value = table_header
           /\ \A i \in 1..n :
                /\ out[2 + i].kind = "entry"
                /\ out[2 + i].value = entitydb[table_entries[i]]
           /\ out[n + 3].kind = "marker" /\ out[n + 3].value = "ENDTAB"

\* C7 witness: a write of a table with a loaded and a created member
C7_Witness ==
    /\ Built /\ last.op = "write" /\ last.exc = "none"
    /\ \E i \in 1..Len(table_entries) : table_entries[i] < HandSeed
    /\ \E i \in 1..Len(table_entries) : table_entries[i] >= HandSeed

\* the handles of the loaded entry groups, in file order
LoadedHandles == [i \in 1..(Len(groups) - 2) |-> groups[i + 1].tags.handle]

\* s with its k-th element taken out
Without(s, k) == SubSeq(s, 1, k - 1) \o SubSeq(s, k + 1, Len(s))

\* the members are the loaded entries that are left, in file order,
\* followed by the created entries that are left, in the order the
\* allocator issued their handles
InInsertionOrder ==
    LET n       == Len(table_entries)
        loaded  == SelectSeq(table_entries, LAMBDA h : h < HandSeed)
        created == SelectSeq(table_entries, LAMBDA h : h >= HandSeed)
        left    == SelectSeq(LoadedHandles, LAMBDA h : h \in SeqRange(table_entries))
    IN  /\ table_entries = loaded \o created
        /\ loaded = left
        /\ \A i, j \in 1..Len(created) : i < j => created[i] < created[j]

\* C8: the member list holds the live entries in the order they were added,
\* loaded entries first in file order, then created ones in creation order:
\* a create or new_entry that returns appends at the end, a remove that
\* returns takes one member out and leaves the others in their order, every
\* other call leaves the list alone, and iteration and write visit the
\* entries in the order of the list.
C8_InsertionOrder ==
    Built =>
        /\ InInsertionOrder
        /\ (last.op \in {"create", "new_entry"} /\ last.exc = "none")
            => /\ table_entries = Append(last.pre.entries, last.ret.handle)
               /\ last.ret.handle \notin SeqRange(last.pre.entries)
        /\ (last.op = "remove" /\ last.exc = "none")
            => \E k \in 1..Len(last.pre.entries) :
                    table_entries = Without(last.pre.entries, k)
        /\ (last.op \notin {"init", "create", "new_entry", "remove"}
                \/ last.exc # "none")
            => table_entries = last.pre.entries
        /\ last.op = "init" => table_entries = LoadedHandles
        /\ last.op = "iter"
            => /\ Len(last.ret) = Len(table_entries)
               /\ \A i \in 1..Len(table_entries) :
                    last.ret[i].handle = table_entries[i]
        /\ (last.op = "write" /\ last.exc = "none")
            => /\ Len(last.ret) = Len(table_entries) + 3
               /\ \A i \in 1..Len(table_entries) :
                    last.ret[2 + i].value.handle = table_entries[i]

\* C8 witness: a remove took the first of three or more members; a loaded
\* and a created member are among those left
C8_Witness ==
    /\ Built /\ last.op = "remove" /\ last.exc = "none"
    /\ Len(last.pre.entries) >= 3
    /\ table_entries = Without(last.pre.entries, 1)
    /\ \E i \in 1..Len(table_entries) : table_entries[i] < HandSeed
    /\ \E i \in 1..Len(table_entries) : table_entries[i] >= HandSeed

\* C9: get(name) returns the entry of the first member, in the order of the
\* member list, whose name is name, and raises ValueError exactly when no
\* member has that name.
C9_GetFirstMatch ==
    (Built /\ last.op = "get")
    => LET hits == Positions(last.pre, last.name)
       IN  /\ last.exc = "ValueError" <=> hits = {}
           /\ last.exc \in {"none", "ValueError"}
           /\ hits # {} =>
                /\ last.ret.handle = last.pre.entries[Min(hits)]
                /\ last.ret.name = last.name
                /\ last.ret.tags = last.pre.db[last.ret.handle]

\* C9 witness: a get of a name that two members have
C9_Witness ==
    /\ Built /\ last.op = "get" /\ last.exc = "none"
    /\ Cardinality(Positions(last.pre, last.name)) >= 2

\* C10: remove(name) of a name no member has raises ValueError and leaves
\* the member list and the entity database as they were.
C10_RemoveUnknownFails ==
    (Built /\ last.op = "remove" /\ Positions(last.pre, last.name) = {})
    => /\ last.exc = "ValueError"
       /\ table_entries = last.pre.entries
       /\ entitydb = last.pre.db

\* C10 witness: a refused remove on a table that has members
C10_Witness ==
    /\ Built /\ last.op = "remove" /\ last.exc = "ValueError"
    /\ Positions(last.pre, last.name) = {}
    /\ len(Current) >= 1


\* C11: a remove that returns takes out exactly one member, the first in
\* the order of the member list whose name is name, together with its
\* record; every other member and every other record stays as it was, so
\* later members of that name remain.
C11_RemoveFirstMatchOnly ==
    (Built /\ last.op = "remove" /\ last.exc = "none")
    => LET hits == Positions(last.pre, last.name)
           k    == Min(hits)
           gone == last.pre.entries[k]
       IN  /\ hits # {}
           /\ table_entries = Without(last.pre.entries, k)
           /\ DOMAIN entitydb = (DOMAIN last.pre.db) \ {gone}
           /\ \A h \in DOMAIN entitydb : entitydb[h] = last.pre.db[h]
           /\ Cardinality(Positions(Current, last.name))
                = Cardinality(hits) - 1

\* C11 witness: a remove of a name two members had; the later one remains
C11_Witness ==
    /\ Built /\ last.op = "remove" /\ last.exc = "none"
    /\ Cardinality(Positions(last.pre, last.name)) >= 2
    /\ Positions(Current, last.name) # {}


\* C12: in every state and for every name, contains(name) is true exactly
\* when get(name) would return and false exactly when get(name) would raise
\* ValueError; a contains call itself returns a truth value and never
\* raises.
C12_ContainsIffGetSucceeds ==
    Built =>
        /\ \A n \in Names :
            /\ contains(Current, n) <=> get(Current, n).exc = "none"
            /\ ~contains(Current, n) <=> get(Current, n).exc = "ValueError"
        /\ last.op = "contains" =>
            /\ last.exc = "none"
            /\ last.ret \in BOOLEAN
            /\ last.ret <=> get(last.pre, last.name).exc = "none"
            /\ last.ret <=> Positions(last.pre, last.name) # {}

\* C12 witness: a contains call answered False on a table that has members
C12_Witness ==
    /\ Built /\ last.op = "contains" /\ last.exc = "none"
    /\ last.ret = FALSE
    /\ get(last.pre, last.name).exc = "ValueError"
    /\ len(Current) >= 1


\* C13: new_entry looks for no name collision: on either class, also on a
\* standard Table that has the name, a new_entry (with attribs the factory
\* accepts) takes the allocator's next handle, which no record and no member
\* had, stores the new entry's tags under it, appends the handle at the end
\* of the member list and so raises the count by exactly one.
C13_NewEntryUnchecked ==
    (Built /\ last.op = "new_entry" /\ last.valid)
    => LET handle == last.pre.next
       IN  /\ last.exc = "none"
           /\ last.ret.handle = handle
           /\ nexthandle = handle + 1
           /\ handle \notin DOMAIN last.pre.db
           /\ handle \notin SeqRange(last.pre.entries)
           /\ entitydb = DictSet(last.pre.db, handle, last.ret.tags)
           /\ entitydb[handle] = EntryTags(handle, last.name)
           /\ table_entries = Append(last.pre.entries, handle)
           /\ len(Current) = len(last.pre) + 1

\* C13 witness: new_entry gave a standard Table a second member of a name
C13_Witness ==
    /\ Built /\ cls = "Table" /\ last.op = "new_entry" /\ last.exc = "none"
    /\ Positions(last.pre, last.name) # {}
    /\ Cardinality(Positions(Current, last.name)) >= 2


\* the loaded entry groups carry pairwise distinct names
LoadedNamesDistinct ==
    \A i, j \in 2..(Len(groups) - 1) :
        i # j => groups[i].tags.name # groups[j].tags.name

\* C14 as stated: a standard Table built from any tag groups and changed by
\* any sequence of create, new_entry and remove never holds two members
\* with the same name.
C14_AsStated == (Built /\ cls = "Table") => UniqueNames(Current)

\* C14 amended: on a standard Table no call but new_entry ends name
\* uniqueness: after construction names are unique exactly when the loaded
\* entries have distinct names, a new_entry that returns keeps them unique
\* exactly when the table did not have its name, and create, remove and the
\* observing calls keep unique names unique.
C14_UniquenessPreserved ==
    (Built /\ cls = "Table") =>
        /\ last.op = "init" => (UniqueNames(Current) <=> LoadedNamesDistinct)
        /\ (last.op = "new_entry" /\ last.exc = "none" /\ UniqueNames(last.pre))
            => (UniqueNames(Current) <=> Positions(last.pre, last.name) = {})
        /\ (last.op \notin {"init", "new_entry"} /\ UniqueNames(last.pre))
            => UniqueNames(Current)

\* C14 witness: a create that returned on a standard Table with unique
\* names, which now has two members
C14_Witness ==
    /\ Built /\ cls = "Table"
    /\ last.op = "create" /\ last.exc = "none"
    /\ UniqueNames(last.pre)
    /\ len(Current) >= 2


\* C15: the handles in the member list are pairwise distinct, a member's
\* record carries the handle it is filed under and stays the same from call
\* to call while it is a member, the allocator only moves forward and stays
\* above every handle it or the file has given out, and a created entry
\* gets the allocator's next handle, so never the handle of a removed entry.
C15_HandlesUniqueAndNeverReused ==
    Built =>
        /\ \A i, j \in 1..Len(table_entries) :
            i # j => table_entries[i] # table_entries[j]
        /\ \A h \in SeqRange(table_entries) :
            /\ entitydb[h].handle = h
            /\ h < nexthandle
            /\ h \in SeqRange(last.pre.entries) => entitydb[h] = last.pre.db[h]
        /\ nexthandle >= last.pre.next
        /\ \A h \in SeqRange(last.pre.entries) \cup DOMAIN last.pre.db :
            h < nexthandle
        /\ (last.op \in {"create", "new_entry"} /\ last.exc = "none")
            => /\ last.ret.handle = last.pre.next
               /\ last.ret.handle < nexthandle
               /\ \A h \in SeqRange(LoadedHandles) : h < last.ret.handle
               /\ \A h \in DOMAIN last.pre.db : h < last.ret.handle

\* C15 witness: an entry was created after a loaded entry had been removed
C15_Witness ==
    /\ Built /\ last.op \in {"create", "new_entry"} /\ last.exc = "none"
    /\ \E h \in SeqRange(LoadedHandles) : h \notin DOMAIN last.pre.db
    /\ len(Current) >= 2


\* the stream TABLE, one entry named "0", ENDTAB
OneEntryNamedZero == Len(groups) = 3 /\ groups[2].tags.name = "0"

\* C16: a table built from the groups TABLE, e1..en, ENDTAB has n members,
\* the handles of e1..en in file order, each filed with the tags of its
\* group; the tags of the TABLE group after its marker are the header, and
\* neither the TABLE nor the ENDTAB group is a member.  Built from the
\* stream with the one entry "0", the table has count 1, contains "0" and
\* get("0") has the name "0"; create("0") on a standard Table raises
\* ValueError, and remove("0") leaves count 0.
C16_ConstructionFromStream ==
    (Built /\ last.op = "init")
    => LET n == Len(groups) - 2
       IN  /\ groups[1].name = "TABLE" /\ groups[n + 2].name = "ENDTAB"
           /\ len(Current) = n
           /\ table_header = groups[1].tags
           /\ \A i \in 1..n :
                /\ table_entries[i] = groups[i + 1].tags.handle
                /\ entitydb[table_entries[i]] = groups[i + 1].tags
           /\ DOMAIN entitydb = OtherHandles \cup SeqRange(LoadedHandles)
           /\ \A h \in OtherHandles : entitydb[h] = OtherEntities[h]
           /\ OneEntryNamedZero =>
                /\ len(Current) = 1
                /\ contains(Current, "0")
                /\ get(Current, "0").exc = "none"
                /\ get(Current, "0").ret.name = "0"
                /\ cls = "Table" =>
                    create(cls, Current, [name |-> "0", valid |-> TRUE]).exc
                        = "ValueError"
                /\ remove(Current, "0").exc = "none"
                /\ len(remove(Current, "0").st) = 0

\* C16 witness: a standard Table just built from the one-entry stream
C16_Witness ==
    /\ Built /\ last.op = "init" /\ cls = "Table"
    /\ OneEntryNamedZero
    /\ len(Current) = 1


\* the stream starts with a TABLE group and ends with an ENDTAB group
WellFormed ==
    groups[1].name = "TABLE" /\ groups[Len(groups)].name = "ENDTAB"

\* C17: building a table from a stream whose first group is not TABLE or
\* whose last group is not ENDTAB fails (the assert statements raise
\* AssertionError, the structure error of this layer) before any entry is
\* added: no member, no handle taken, the entity database as it was; a
\* well-formed stream does not fail.
C17_BrokenStreamRejected ==
    /\ ~WellFormed =>
        /\ constructed = "AssertionError"
        /\ last.op = "init" /\ last.exc = "AssertionError"
        /\ table_entries = <<>>
        /\ entitydb = last.pre.db
        /\ entitydb = OtherEntities
        /\ nexthandle = last.pre.next
    /\ WellFormed => constructed = "ok"

\* C17 witness: a stream with an entry group and no ENDTAB was refused
C17_Witness ==
    /\ constructed = "AssertionError"
    /\ groups[1].name = "TABLE"
    /\ Len(groups) >= 2
    /\ groups[Len(groups)].name = "LAYER"


\* reading a written stream back into tag groups: a marker line opens a
\* group and the header tags after the TABLE line belong to it; the tags of
\* an entry are a group of their own
Regroup(stream) ==
    LET slot(i) ==
            IF stream[i].kind = "marker"
            THEN Group(stream[i].value,
                       IF i < Len(stream) /\ stream[i + 1].kind = "header"
                       THEN stream[i + 1].value ELSE <<>>)
            ELSE IF stream[i].kind = "entry"
            THEN Group("LAYER", stream[i].value)
            ELSE Group("", <<>>)
        slots == [i \in 1..Len(stream) |-> slot(i)]
    IN  SelectSeq(slots, LAMBDA g : g.name # "")

\* the drawing before a table is loaded into it
FreshDrawing == TableState(<<>>, OtherEntities, EmptyHeader, HandSeed)

\* tags b are tags a with, at most, the value of the code-70 tags changed
SameButCount(a, b) ==
    /\ Len(a) = Len(b)
    /\ \A k \in 1..Len(a) :
        /\ a[k].code = b[k].code
        /\ a[k].code # 70 => a[k].value = b[k].value

ValueOf(tags, code) ==
    IF HasCode(tags, code) THEN tags[FirstIndex(tags, code)].value ELSE None

\* C19: a write patches the count in one place: for a dxfversion above
\* 'AC1009' tag 70 of the subclass 'AcDbSymbolTable', and the tags outside
\* the subclasses stay as they were; for a dxfversion up to 'AC1009' tag 70
\* outside the subclasses, and the subclass stays as it was.  The header
\* written is the patched one.
C19_CountPatchedInOnePlace ==
    (Built /\ last.op = "write")
    => LET old == last.pre.header
           new == table_header
           n   == len(last.pre)
       IN  /\ last.exc = "none"
           /\ last.ret[2].kind = "header" /\ last.ret[2].value = new
           /\ dxfversion > AC1009 =>
                /\ new.noclass = old.noclass
                /\ SameButCount(old.AcDbSymbolTable, new.AcDbSymbolTable)
                /\ ValueOf(new.AcDbSymbolTable, 70) = n
           /\ dxfversion <= AC1009 =>
                /\ new.AcDbSymbolTable = old.AcDbSymbolTable
                /\ SameButCount(old.noclass, new.noclass)
                /\ ValueOf(new.noclass, 70) = n

\* C19 witness: a write under 'AC1009' of a header that has a count in the
\* subclass too, which still differs from the member count afterwards
C19_Witness ==
    /\ Built /\ last.op = "write" /\ last.exc = "none"
    /\ dxfversion = AC1009
    /\ HasCode(table_header.AcDbSymbolTable, 70)
    /\ ValueOf(table_header.AcDbSymbolTable, 70) # len(Current)
    /\ ValueOf(last.pre.header.noclass, 70) # len(Current)


\* C20: two tables share the entity database and the allocator and hold
\* disjoint handles.  A create, new_entry or remove on one of them, whether
\* it returns or raises, leaves the member list of the other and the
\* records of the other's members as they were; the two lists stay
\* disjoint and every member of either table keeps a record under its
\* handle, so lookups on the other table go on working.
C20_OtherTableUntouched ==
    Built =>
        /\ SeqRange(table_entries) \cap SeqRange(other_entries) = {}
        /\ \A h \in SeqRange(table_entries) \cup SeqRange(other_entries) :
            h \in DOMAIN entitydb /\ entitydb[h].handle = h
        /\ (last.op # "init" /\ last.on = "self") =>
            /\ other_entries = last.other
            /\ \A h \in SeqRange(other_entries) : entitydb[h] = last.pre.db[h]
            /\ \A n \in Names :
                LET now    == get(Other, n)
                    before == get([Other EXCEPT !.db = last.pre.db], n)
                IN  now.exc = before.exc /\ now.ret = before.ret
        /\ last.on = "other" =>
            /\ table_entries = last.pre.entries
            /\ table_header = last.pre.header
            /\ \A h \in SeqRange(table_entries) : entitydb[h] = last.pre.db[h]
            /\ \A n \in Names :
                LET now    == get(Current, n)
                    before == get(last.pre, n)
                IN  now.exc = before.exc /\ now.ret = before.ret

\* C20 witness: the first table removed its "0" while the second table held
\* two members, one of them named "0" as well
C20_Witness ==
    /\ Built /\ last.on = "self" /\ last.op = "remove" /\ last.exc = "none"
    /\ last.name = "0"
    /\ Len(other_entries) >= 2
    /\ Positions(Other, "0") # {}


\* the call of `last` got as far as the entity factory: new_entry always
\* does, create only when its duplicate check let the name pass
ReachedFactory ==
    /\ last.on = "self"
    /\ \/ last.op = "new_entry"
       \/ /\ last.op = "create"
          /\ (cls = "ViewportTable" \/ ~contains(last.pre, last.name))

\* C21: when the entity factory rejects the attributes inside new_entry, or
\* inside a create that got as far as new_entry, the caller gets the
\* factory's ValidationError and the member list and the entity database are
\* what they were before the call.
C21_FactoryErrorLeavesTable ==
    (Built /\ ReachedFactory /\ ~last.valid) =>
        /\ last.exc = "ValidationError"
        /\ last.ret = None
        /\ table_entries = last.pre.entries
        /\ entitydb = last.pre.db

\* C21 witness: a create on a table with members was rejected by the factory
C21_Witness ==
    /\ Built /\ ReachedFactory /\ ~last.valid
    /\ last.op = "create"
    /\ last.exc = "ValidationError"
    /\ Len(table_entries) >= 2


Observers == {"get", "contains", "len", "iter", "write"}

\* the other place of the header, the one a write of that version leaves
OtherScope(version) ==
    IF CountScope(version) = "noclass" THEN "AcDbSymbolTable" ELSE "noclass"

\* C22: get, contains, count, iteration and write leave the member list,
\* the records of the entity database and the handle allocator as they
\* were, whether they return or raise.  All but write leave the header as
\* it was too; write changes of the header nothing but the value of its
\* count tag, which becomes the number of members.
C22_ObserversChangeNothing ==
    (Built /\ last.on = "self" /\ last.op \in Observers) =>
        /\ table_entries = last.pre.entries
        /\ entitydb = last.pre.db
        /\ nexthandle = last.pre.next
        /\ last.op # "write" => table_header = last.pre.header
        /\ last.op = "write" =>
            /\ table_header[OtherScope(dxfversion)]
                   = last.pre.header[OtherScope(dxfversion)]
            /\ SameButCount(last.pre.header[CountScope(dxfversion)],
                            table_header[CountScope(dxfversion)])
            /\ CountField(table_header, dxfversion) = len(Current)

\* C22 witness: a get found its entry in a table of three members, after a
\* write had changed the header's count
C22_Witness ==
    /\ Built /\ last.on = "self" /\ last.op = "get" /\ last.exc = "none"
    /\ Len(table_entries) = 3
    /\ table_header # groups[1].tags


RECURSIVE Join(_)
\* ''.join(chunks)
Join(chunks) ==
    IF chunks = <<>> THEN <<>> ELSE Head(chunks) \o Join(Tail(chunks))

EndsWithCaret(chunk) == Len(chunk) # 0 /\ chunk[Len(chunk)] = "^"

\* C23: of the chunks split_mtext_string has made, none that is followed by
\* another chunk ends with '^'.
C23_NoSplitAtCaret ==
    \A i \in 1..(Len(split.chunks) - 1) : ~EndsWithCaret(split.chunks[i])

\* C24: split_mtext_string returns for every s and every size >= 1.  What a
\* pass does depends on s, size and pos alone and pos never moves back, so
\* the call returns exactly when every pass that does not return moves pos
\* forward: a pass that leaves pos where it was is repeated for ever.
C24_Terminates ==
    [][(split.size >= 1 /\ ~split'.done) => split'.pos > split.pos]_vars

\* C25: when split_mtext_string has returned, its chunks joined in order
\* are s.
C25_ChunksJoinToS ==
    (split.done /\ split # NoSplit) => Join(split.chunks) = split.s

=============================================================================
